---- MODULE Spec2Model ----
(***************************************************************************)
(* Model of src/utils/utils.js: the translation of an OpenAI-style chat    *)
(* request into the Antigravity request body.  The source file holds two   *)
(* snapshots of the module (lines 1-323 and lines 324-631); both are       *)
(* modelled, and the variable `snapshot` says which one a behaviour runs.  *)
(*                                                                         *)
(* JavaScript strings are sequences of one-character strings, so that      *)
(* startsWith / includes / endsWith / trim / trimEnd and the data-URI      *)
(* regular expression are computed, not assumed.  JavaScript objects are   *)
(* records; a property that is absent is a field that is absent.  Message  *)
(* content is tagged with its JavaScript type: [k |-> "string", s |-> ..], *)
(* [k |-> "null"], [k |-> "array", items |-> ..], [k |-> "object", o |-> ..]*)
(* A UTF-16 code unit that has no TLA+ string escape is written as the     *)
(* one-element token "U+XXXX" (for example "U+00A0" for the no-break       *)
(* space).                                                                 *)
(***************************************************************************)
EXTENDS Integers, Sequences, FiniteSets, TLC

VARIABLES snapshot, modelName, pc, n, msg, antigravityMessages, parameters, request

vars == <<snapshot, modelName, pc, n, msg, antigravityMessages, parameters, request>>

(***************************************************************************)
(* Bound of the model: the number of source messages of one request.       *)
(***************************************************************************)
MaxMsgs == 3

(***************************************************************************)
(* String primitives.                                                      *)
(***************************************************************************)
Undefined == <<"undefined">>

Truthy(s) == s # Undefined /\ s # <<>>

OrElse(a, b) == IF Truthy(a) THEN a ELSE b

Field(o, f) == IF f \in DOMAIN o THEN o[f] ELSE Undefined

startsWith(s, p) == Len(s) >= Len(p) /\ SubSeq(s, 1, Len(p)) = p

endsWith(s, p) == Len(s) >= Len(p) /\ SubSeq(s, Len(s) - Len(p) + 1, Len(s)) = p

includes(s, p) == \E i \in 0..(Len(s) - Len(p)) : SubSeq(s, i + 1, i + Len(p)) = p

\* The regular expression . (no s flag) rejects the four ECMAScript line terminators.
LineTerminators == {"\n", "\r", "U+2028", "U+2029"}

\* String.prototype.trim / trimEnd strip ECMAScript WhiteSpace and LineTerminator: 25 code units.
WhiteSpace ==
  {"\t", "U+000B", "\f", " ", "U+00A0", "U+FEFF",
   "U+1680", "U+2000", "U+2001", "U+2002", "U+2003", "U+2004", "U+2005", "U+2006", "U+2007",
   "U+2008", "U+2009", "U+200A", "U+202F", "U+205F", "U+3000"} \cup LineTerminators

RECURSIVE trimEnd(_)
trimEnd(s) == IF s # <<>> /\ s[Len(s)] \in WhiteSpace THEN trimEnd(SubSeq(s, 1, Len(s) - 1)) ELSE s

RECURSIVE trimStart(_)
trimStart(s) == IF s # <<>> /\ s[1] \in WhiteSpace THEN trimStart(Tail(s)) ELSE s

trim(s) == trimStart(trimEnd(s))

RECURSIVE Concat(_)
Concat(ss) == IF ss = <<>> THEN <<>> ELSE Head(ss) \o Concat(Tail(ss))

(***************************************************************************)
(* String literals of the source.                                          *)
(***************************************************************************)
\* "I will use the tool to process this request."
defaultThoughtText ==
  <<"I"," ","w","i","l","l"," ","u","s","e"," ","t","h","e"," ","t","o","o","l"," ",
    "t","o"," ","p","r","o","c","e","s","s"," ","t","h","i","s"," ","r","e","q","u","e","s","t",".">>

S_undefined == <<"u","n","d","e","f","i","n","e","d">>
S_data_image_ == <<"d","a","t","a",":","i","m","a","g","e","/">>
S_base64_ == <<";","b","a","s","e","6","4",",">>
S_image_ == <<"i","m","a","g","e","/">>
S_gemini_ == <<"g","e","m","i","n","i","-">>
S_thinking == <<"t","h","i","n","k","i","n","g">>
S_dash_thinking == <<"-","t","h","i","n","k","i","n","g">>
S_claude == <<"c","l","a","u","d","e">>
S_claude_sonnet_4_5_thinking ==
  <<"c","l","a","u","d","e","-","s","o","n","n","e","t","-","4","-","5","-","t","h","i","n","k","i","n","g">>
S_claude_sonnet_4_5 == <<"c","l","a","u","d","e","-","s","o","n","n","e","t","-","4","-","5">>
S_claude_opus_4_5 == <<"c","l","a","u","d","e","-","o","p","u","s","-","4","-","5">>
S_claude_opus_4_5_thinking ==
  <<"c","l","a","u","d","e","-","o","p","u","s","-","4","-","5","-","t","h","i","n","k","i","n","g">>
S_gemini_2_5_flash_thinking ==
  <<"g","e","m","i","n","i","-","2",".","5","-","f","l","a","s","h","-","t","h","i","n","k","i","n","g">>
S_gemini_2_5_flash == <<"g","e","m","i","n","i","-","2",".","5","-","f","l","a","s","h">>
S_gemini_2_5_pro == <<"g","e","m","i","n","i","-","2",".","5","-","p","r","o">>
S_gemini_3_pro_ == <<"g","e","m","i","n","i","-","3","-","p","r","o","-">>
S_rev19_uic3_1p == <<"r","e","v","1","9","-","u","i","c","3","-","1","p">>
S_gpt_oss_120b_medium == <<"g","p","t","-","o","s","s","-","1","2","0","b","-","m","e","d","i","u","m">>
S_gemini_3_pro_high == <<"g","e","m","i","n","i","-","3","-","p","r","o","-","h","i","g","h">>
S_gpt_4o == <<"g","p","t","-","4","o">>

(***************************************************************************)
(* Model policy.                                                           *)
(***************************************************************************)
needsThoughtFlag(name) == startsWith(name, S_gemini_) /\ includes(name, S_thinking)

isClaudeThinking(name) == includes(name, S_claude) /\ includes(name, S_dash_thinking)

modelMapping(name) ==
  IF name = S_claude_sonnet_4_5_thinking THEN S_claude_sonnet_4_5
  ELSE IF name = S_claude_opus_4_5 THEN S_claude_opus_4_5_thinking
  ELSE IF name = S_gemini_2_5_flash_thinking THEN S_gemini_2_5_flash
  ELSE name

isEnableThinking(name) ==
  \/ endsWith(name, S_dash_thinking)
  \/ name = S_gemini_2_5_pro
  \/ startsWith(name, S_gemini_3_pro_)
  \/ name = S_rev19_uic3_1p
  \/ name = S_gpt_oss_120b_medium

(***************************************************************************)
(* Thinking parts and content sanitising, first snapshot (lines 1-323).    *)
(* Null stands for JavaScript null; no part and no item has a field k.     *)
(***************************************************************************)
Null == [k |-> "null"]

Str(s) == [k |-> "string", s |-> s]

Arr(items) == [k |-> "array", items |-> items]

Obj(o) == [k |-> "object", o |-> o]

Coalesce(p, q) == IF p = Null THEN q ELSE p

(***************************************************************************)
(* The properties thinking and image_url are only tested for truthiness    *)
(* and dereferenced, so they may hold any JavaScript value: an object is a *)
(* record (no object has a field k; the object {} is the record without    *)
(* fields), null is Null, a string s is Str(s), also the empty one, and an *)
(* array is Arr(items).  TruthyValue is the test of `if (item.thinking)`:  *)
(* only null and the empty string are falsy.  Prop reads a property of     *)
(* such a value: a string or an array has no content, text or url.         *)
(* An array item that is null makes the first snapshot throw a TypeError   *)
(* when it reads item.thinking or item.type (lines 59 and 33).             *)
(***************************************************************************)
Throw == [ok |-> FALSE]

TruthyValue(v) ==
  IF "k" \in DOMAIN v THEN v.k # "null" /\ (v.k = "string" => v.s # <<>>) ELSE TRUE

Prop(v, f) ==
  IF "k" \in DOMAIN v THEN (IF v.k = "object" THEN Field(v.o, f) ELSE Undefined) ELSE Field(v, f)

hasThinking(o) == "thinking" \in DOMAIN o /\ TruthyValue(o.thinking)

buildThinkingPart(name, text, enableThinking) ==
  IF ~enableThinking THEN Null
  ELSE IF isClaudeThinking(name) THEN [type |-> "thinking", content |-> text]
  ELSE IF needsThoughtFlag(name) THEN [text |-> text, thought |-> TRUE]
  ELSE Null

TypeIs(item, t) == "type" \in DOMAIN item /\ item.type = t

sanitizeItem(item, enableThinking, name) ==
  IF item = Null THEN Throw
  ELSE IF hasThinking(item)
  THEN LET txt == OrElse(Prop(item.thinking, "content"), OrElse(Prop(item.thinking, "text"), <<>>))
       IN  Coalesce(buildThinkingPart(name, txt, enableThinking), [text |-> txt])
  ELSE IF TypeIs(item, "thinking")
  THEN LET txt == OrElse(Field(item, "content"), OrElse(Field(item, "text"), <<>>))
       IN  Coalesce(buildThinkingPart(name, txt, enableThinking), [text |-> txt])
  ELSE IF TypeIs(item, "text")
  THEN [text |-> OrElse(Field(item, "text"), <<>>)]
  ELSE item

sanitizeContent(content, enableThinking, name) ==
  IF content.k = "string" THEN content
  ELSE IF content.k = "array"
  THEN LET items == [i \in 1..Len(content.items) |-> sanitizeItem(content.items[i], enableThinking, name)]
       IN  IF \E i \in 1..Len(items) : items[i] = Throw THEN Throw ELSE Arr(items)
  ELSE IF content.k = "object" /\ hasThinking(content.o)
  THEN LET txt == OrElse(Prop(content.o.thinking, "content"),
                         OrElse(Prop(content.o.thinking, "text"), <<>>))
       IN  Obj(Coalesce(buildThinkingPart(name, txt, enableThinking), [text |-> txt]))
  ELSE content

(***************************************************************************)
(* extractImagesFromContent (the same in both snapshots) and the regular   *)
(* expression /^data:image\/(\w+);base64,(.+)$/ it applies.                *)
(***************************************************************************)
WordChars ==
  {"a","b","c","d","e","f","g","h","i","j","k","l","m","n","o","p","q","r","s","t","u","v","w","x","y","z",
   "A","B","C","D","E","F","G","H","I","J","K","L","M","N","O","P","Q","R","S","T","U","V","W","X","Y","Z",
   "0","1","2","3","4","5","6","7","8","9","_"}

RECURSIVE WordRun(_)
WordRun(s) == IF s # <<>> /\ Head(s) \in WordChars THEN 1 + WordRun(Tail(s)) ELSE 0

imageUrlMatch(url) ==
  IF ~startsWith(url, S_data_image_) THEN [ok |-> FALSE]
  ELSE LET rest  == SubSeq(url, Len(S_data_image_) + 1, Len(url))
           w     == WordRun(rest)
           after == SubSeq(rest, w + 1, Len(rest))
           data  == SubSeq(after, Len(S_base64_) + 1, Len(after))
       IN  IF w >= 1 /\ startsWith(after, S_base64_) /\ Len(data) >= 1
              /\ \A i \in 1..Len(data) : data[i] \notin LineTerminators
           THEN [ok |-> TRUE, format |-> SubSeq(rest, 1, w), data |-> data]
           ELSE [ok |-> FALSE]

RECURSIVE extractItems(_, _)
extractItems(items, result) ==
  IF items = <<>> THEN result
  ELSE IF Head(items) = Null THEN Throw
  ELSE LET item == Head(items)
           next ==
             IF TypeIs(item, "text")
             THEN [result EXCEPT !.text = @ \o (IF "text" \in DOMAIN item THEN item.text ELSE S_undefined)]
             ELSE IF TypeIs(item, "image_url")
             THEN LET imageUrl == IF "image_url" \in DOMAIN item
                                  THEN OrElse(Prop(item.image_url, "url"), <<>>) ELSE <<>>
                      match == imageUrlMatch(imageUrl)
                  IN  IF match.ok
                      THEN [result EXCEPT !.images =
                              Append(@, [inlineData |-> [mimeType |-> S_image_ \o match.format,
                                                         data |-> match.data]])]
                      ELSE result
             ELSE result
       IN  extractItems(Tail(items), next)

extractImagesFromContent(content) ==
  IF content.k = "string" THEN [text |-> content.s, images |-> <<>>]
  ELSE IF content.k = "array" THEN extractItems(content.items, [text |-> <<>>, images |-> <<>>])
  ELSE [text |-> <<>>, images |-> <<>>]

\* Variant that puts the new turn first, used to see that the properties depend on the order.
handleUserMessage_prepends(extracted, msgs) ==
  <<[role |-> "user", parts |-> <<[text |-> extracted.text]>> \o extracted.images]>> \o msgs

handleUserMessage(extracted, msgs) ==
  Append(msgs, [role |-> "user", parts |-> <<[text |-> extracted.text]>> \o extracted.images])

(***************************************************************************)
(* handleAssistantMessage, first snapshot (lines 96-139).  The message     *)
(* carries the content sanitizeContent returned.  message.content.trim()   *)
(* is evaluated whenever the content is truthy: an array or an object has  *)
(* no trim method and the call throws a TypeError.                         *)
(***************************************************************************)
Return(msgs) == [ok |-> TRUE, value |-> msgs]

hasToolCallsOf(message) == "tool_calls" \in DOMAIN message /\ Len(message.tool_calls) > 0

toolCallParts(message, marked) ==
  IF hasToolCallsOf(message)
  THEN [i \in 1..Len(message.tool_calls) |->
          LET toolCall == message.tool_calls[i]
              fc == [id |-> toolCall.id, name |-> toolCall.function.name,
                     args |-> [query |-> toolCall.function.arguments]]
          IN  IF marked THEN [functionCall |-> fc, thought |-> TRUE] ELSE [functionCall |-> fc]]
  ELSE <<>>

Last(msgs) == msgs[Len(msgs)]

PushParts(msgs, ps) == [msgs EXCEPT ![Len(msgs)].parts = @ \o ps]

OptPart(p) == IF p = Null THEN <<>> ELSE <<p>>

\* Variants of the merge test, used to see that the properties depend on it.
mergesIntoModelTurn_ignoresText(msgs, hasToolCalls, hasContent) ==
  msgs # <<>> /\ Last(msgs).role = "model" /\ hasToolCalls

mergesIntoModelTurn_textlessTurnOnly(msgs, hasToolCalls, hasContent) ==
  /\ msgs # <<>> /\ Last(msgs).role = "model" /\ hasToolCalls /\ ~hasContent
  /\ \A i \in 1..Len(Last(msgs).parts) : "text" \notin DOMAIN Last(msgs).parts[i]

\* lastMessage?.role === "model" && hasToolCalls && !hasContent  (lines 116 and 442)
mergesIntoModelTurn(msgs, hasToolCalls, hasContent) ==
  msgs # <<>> /\ Last(msgs).role = "model" /\ hasToolCalls /\ ~hasContent

handleAssistantMessage(message, msgs, name, enableThinking) ==
  IF message.content.k \in {"array", "object"} THEN Throw
  ELSE
  LET hasToolCalls == hasToolCallsOf(message)
      hasContent == message.content.k = "string" /\ message.content.s # <<>>
                      /\ trim(message.content.s) # <<>>
      needsThought == needsThoughtFlag(name)
      antigravityTools == toolCallParts(message, needsThought)
      prependThinking == IF hasToolCalls
                         THEN buildThinkingPart(name, defaultThoughtText, enableThinking)
                         ELSE Null
  IN  IF mergesIntoModelTurn(msgs, hasToolCalls, hasContent)
      THEN Return(PushParts(msgs, OptPart(prependThinking) \o antigravityTools))
      ELSE LET lead == IF hasToolCalls /\ prependThinking # Null THEN <<prependThinking>> ELSE <<>>
               body == IF hasContent THEN <<[text |-> trimEnd(message.content.s)]>>
                       ELSE IF hasToolCalls /\ prependThinking # Null THEN <<>>
                       ELSE IF hasToolCalls /\ enableThinking /\ needsThought
                       THEN <<[text |-> defaultThoughtText, thought |-> TRUE]>>
                       ELSE <<>>
           IN  Return(Append(msgs, [role |-> "model", parts |-> lead \o body \o antigravityTools]))

(***************************************************************************)
(* sanitizeContent and handleAssistantMessage, second snapshot             *)
(* (lines 367-396 and 417-465).                                            *)
(***************************************************************************)
RECURSIVE sanitizeItems_2(_)
sanitizeItems_2(items) ==
  IF items = <<>> THEN <<>>
  ELSE LET item == Head(items)
           out ==
             IF item = Null THEN <<>>
             ELSE IF hasThinking(item)
             THEN <<[type |-> "text", text |-> OrElse(Prop(item.thinking, "content"), <<>>)]>>
             ELSE IF TypeIs(item, "thinking")
             THEN <<[type |-> "text",
                     text |-> OrElse(Field(item, "content"), OrElse(Field(item, "text"), <<>>))]>>
             ELSE IF TypeIs(item, "text") /\ "text" \in DOMAIN item
             THEN <<[type |-> "text", text |-> item.text]>>
             ELSE IF TypeIs(item, "image_url") THEN <<item>>
             ELSE IF "text" \in DOMAIN item THEN <<[type |-> "text", text |-> item.text]>>
             ELSE <<>>
       IN  out \o sanitizeItems_2(Tail(items))

sanitizeContent_2(rawContent) ==
  IF rawContent.k = "null" \/ (rawContent.k = "string" /\ rawContent.s = <<>>) THEN rawContent
  ELSE IF rawContent.k = "object" /\ hasThinking(rawContent.o)
  THEN Str(OrElse(Prop(rawContent.o.thinking, "content"), <<>>))
  ELSE IF rawContent.k = "array"
  THEN LET parts == sanitizeItems_2(rawContent.items)
       IN  IF Len(parts) > 0 THEN Arr(parts) ELSE Str(<<>>)
  ELSE rawContent

buildThinkingPart_2(text) == [text |-> text, thought |-> TRUE]

RECURSIVE joinText(_)
joinText(items) ==
  IF items = <<>> THEN <<>>
  ELSE (IF TypeIs(Head(items), "text") /\ "text" \in DOMAIN Head(items) THEN Head(items).text ELSE <<>>)
       \o joinText(Tail(items))

handleAssistantMessage_2(message, msgs, name, enableThinking) ==
  LET hasToolCalls == hasToolCallsOf(message)
      rawContent == sanitizeContent_2(message.content)
      textContent == IF rawContent.k = "array" THEN Str(joinText(rawContent.items)) ELSE rawContent
      hasContent == textContent.k = "string" /\ trim(textContent.s) # <<>>
      antigravityTools == toolCallParts(message, enableThinking)
      maybeThought == IF enableThinking THEN buildThinkingPart_2(defaultThoughtText) ELSE Null
  IN  IF mergesIntoModelTurn(msgs, hasToolCalls, hasContent)
      THEN Return(PushParts(msgs, OptPart(maybeThought) \o antigravityTools))
      ELSE LET parts ==
                 IF enableThinking
                 THEN IF hasToolCalls /\ ~hasContent THEN OptPart(maybeThought)
                      ELSE IF hasContent THEN <<[text |-> trimEnd(textContent.s)]>>
                      ELSE <<>>
                 ELSE IF hasContent THEN <<[text |-> trimEnd(textContent.s)]>> ELSE <<>>
           IN  Return(Append(msgs, [role |-> "model", parts |-> parts \o antigravityTools]))

(***************************************************************************)
(* handleToolCall (the same in both snapshots, lines 141-170 and 467-503). *)
(***************************************************************************)
RECURSIVE firstMatch(_, _)
firstMatch(parts, id) ==
  IF parts = <<>> THEN [found |-> FALSE]
  ELSE IF "functionCall" \in DOMAIN Head(parts) /\ Head(parts).functionCall.id = id
  THEN [found |-> TRUE, name |-> Head(parts).functionCall.name]
  ELSE firstMatch(Tail(parts), id)

\* Variant scanning from the oldest turn, used to see that the properties depend on the direction.
RECURSIVE resolveFunctionName_oldestFirst(_, _, _, _)
resolveFunctionName_oldestFirst(msgs, i, id, functionName) ==
  LET j == Len(msgs) - i + 1
  IN  IF i < 1 THEN functionName
      ELSE IF msgs[j].role = "model"
      THEN LET m == firstMatch(msgs[j].parts, id)
               fn == IF m.found THEN m.name ELSE functionName
           IN  IF Truthy(fn) THEN fn ELSE resolveFunctionName_oldestFirst(msgs, i - 1, id, fn)
      ELSE resolveFunctionName_oldestFirst(msgs, i - 1, id, functionName)

RECURSIVE resolveFunctionName(_, _, _, _)
resolveFunctionName(msgs, i, id, functionName) ==
  IF i < 1 THEN functionName
  ELSE IF msgs[i].role = "model"
  THEN LET m == firstMatch(msgs[i].parts, id)
           fn == IF m.found THEN m.name ELSE functionName
       IN  IF Truthy(fn) THEN fn ELSE resolveFunctionName(msgs, i - 1, id, fn)
  ELSE resolveFunctionName(msgs, i - 1, id, functionName)

hasFunctionResponse(turn) == \E i \in 1..Len(turn.parts) : "functionResponse" \in DOMAIN turn.parts[i]

mergesIntoResponseTurn_anyUserTurn(msgs) == msgs # <<>> /\ Last(msgs).role = "user"

\* Variant that never merges a tool response, used to see that the properties depend on the merge.
mergesIntoResponseTurn_never(msgs) == msgs # msgs

\* lastMessage?.role === "user" && lastMessage.parts.some(p => p.functionResponse)  (lines 165 and 495)
mergesIntoResponseTurn(msgs) ==
  msgs # <<>> /\ Last(msgs).role = "user" /\ hasFunctionResponse(Last(msgs))

handleToolCall(message, msgs) ==
  LET functionName == resolveFunctionName(msgs, Len(msgs), message.tool_call_id, <<>>)
      functionResponse == [functionResponse |->
                             [id |-> message.tool_call_id, name |-> functionName,
                              response |-> [output |-> message.content]]]
  IN  IF mergesIntoResponseTurn(msgs)
      THEN PushParts(msgs, <<functionResponse>>)
      ELSE Append(msgs, [role |-> "user", parts |-> <<functionResponse>>])

(***************************************************************************)
(* deepSanitizeParts (first snapshot only, lines 173-189).                 *)
(***************************************************************************)
RECURSIVE deepSanitizeParts(_, _, _)
deepSanitizeParts(parts, enableThinking, name) ==
  [i \in 1..Len(parts) |->
     LET p == parts[i]
     IN  IF hasThinking(p)
         THEN LET txt == OrElse(Prop(p.thinking, "content"), OrElse(Prop(p.thinking, "text"), <<>>))
              IN  Coalesce(buildThinkingPart(name, txt, enableThinking), [text |-> txt])
         ELSE IF TypeIs(p, "thinking")
         THEN IF isClaudeThinking(name) THEN p
              ELSE [text |-> OrElse(Field(p, "content"), OrElse(Field(p, "text"), <<>>))]
         ELSE IF "parts" \in DOMAIN p
         THEN [p EXCEPT !.parts = deepSanitizeParts(p.parts, enableThinking, name)]
         ELSE p]

(***************************************************************************)
(* One iteration of the loop of openaiMessageToAntigravity                 *)
(* (lines 191-208 and 504-522): sanitise the content, dispatch on role.    *)
(***************************************************************************)
sanitized(message, snap, name, enableThinking) ==
  [message EXCEPT !.content = IF snap = 1 THEN sanitizeContent(message.content, enableThinking, name)
                              ELSE sanitizeContent_2(message.content)]

assistantStep(message, msgs, snap, name, enableThinking) ==
  IF snap = 1 THEN handleAssistantMessage(message, msgs, name, enableThinking)
  ELSE handleAssistantMessage_2(message, msgs, name, enableThinking)

(***************************************************************************)
(* generateGenerationConfig (lines 210-233 and 523-546).  Numbers supplied *)
(* by the caller and by config.defaults are opaque tokens; "null" is the   *)
(* JavaScript null.  An absent parameter is an absent field.               *)
(***************************************************************************)
configDefaults ==
  [top_p |-> "defaults.top_p", top_k |-> "defaults.top_k",
   temperature |-> "defaults.temperature", max_tokens |-> "defaults.max_tokens"]

Nullish(o, f, d) == IF f \in DOMAIN o /\ o[f] # "null" THEN o[f] ELSE d

stopSequences == <<"<|user|>", "<|bot|>", "<|context_request|>", "<|endoftext|>", "<|end_of_turn|>">>

\* Variant that drops topP for every claude model, used to see that the properties depend on the flag.
generateGenerationConfig_anyClaude(params, enableThinking, actualModelName) ==
  LET rest == [topK |-> Nullish(params, "top_k", configDefaults.top_k),
               temperature |-> Nullish(params, "temperature", configDefaults.temperature),
               candidateCount |-> 1,
               maxOutputTokens |-> Nullish(params, "max_tokens", configDefaults.max_tokens),
               stopSequences |-> stopSequences,
               thinkingConfig |-> [includeThoughts |-> enableThinking,
                                   thinkingBudget |-> IF enableThinking THEN 1024 ELSE 0]]
  IN  IF includes(actualModelName, S_claude)
      THEN rest
      ELSE [f \in DOMAIN rest \cup {"topP"} |->
              IF f = "topP" THEN Nullish(params, "top_p", configDefaults.top_p) ELSE rest[f]]

generateGenerationConfig(params, enableThinking, actualModelName) ==
  LET rest == [topK |-> Nullish(params, "top_k", configDefaults.top_k),
               temperature |-> Nullish(params, "temperature", configDefaults.temperature),
               candidateCount |-> 1,
               maxOutputTokens |-> Nullish(params, "max_tokens", configDefaults.max_tokens),
               stopSequences |-> stopSequences,
               thinkingConfig |-> [includeThoughts |-> enableThinking,
                                   thinkingBudget |-> IF enableThinking THEN 1024 ELSE 0]]
  IN  IF enableThinking /\ includes(actualModelName, S_claude)
      THEN rest
      ELSE [f \in DOMAIN rest \cup {"topP"} |->
              IF f = "topP" THEN Nullish(params, "top_p", configDefaults.top_p) ELSE rest[f]]

(***************************************************************************)
(* generateRequestBody (lines 270-299 and 582-608), after the loop.        *)
(***************************************************************************)
finalContents(msgs, snap, name, enableThinking) ==
  IF snap = 1
  THEN [i \in 1..Len(msgs) |->
          [msgs[i] EXCEPT !.parts = deepSanitizeParts(msgs[i].parts, enableThinking, name)]]
  ELSE msgs

generateRequestBody(msgs, snap, name, params) ==
  LET enableThinking == isEnableThinking(name)
      actualModelName == modelMapping(name)
  IN  [contents |-> finalContents(msgs, snap, name, enableThinking),
       toolConfig |-> [functionCallingConfig |-> [mode |-> "VALIDATED"]],
       generationConfig |-> generateGenerationConfig(params, enableThinking, actualModelName),
       model |-> actualModelName,
       userAgent |-> "antigravity"]

(***************************************************************************)
(* Inputs: the requested models, the source messages and the sampling      *)
(* parameters a caller may pass.                                           *)
(***************************************************************************)
ModelNames ==
  {S_claude_sonnet_4_5_thinking, S_claude_opus_4_5, S_claude_opus_4_5_thinking,
   S_gemini_2_5_flash_thinking, S_gemini_2_5_flash, S_gemini_2_5_pro, S_gemini_3_pro_high,
   S_rev19_uic3_1p, S_gpt_oss_120b_medium, S_gpt_4o}

TextItem(t) == [type |-> "text", text |-> t]

ImageItem(u) == [type |-> "image_url", image_url |-> [url |-> u]]

\* "data:image/png;base64,QQ"
Url_png ==
  <<"d","a","t","a",":","i","m","a","g","e","/","p","n","g",";","b","a","s","e","6","4",",","Q","Q">>
\* "data:image/jpeg;base64,Zg"
Url_jpeg ==
  <<"d","a","t","a",":","i","m","a","g","e","/","j","p","e","g",";","b","a","s","e","6","4",",","Z","g">>
\* "http://x/a.png"
Url_http == <<"h","t","t","p",":","/","/","x","/","a",".","p","n","g">>
\* "data:image/png;base64,A\u2028B": the data holds a line terminator, which . does not match
Url_split ==
  <<"d","a","t","a",":","i","m","a","g","e","/","p","n","g",";","b","a","s","e","6","4",",","A","U+2028","B">>

ToolCall(id, name) == [id |-> id, function |-> [name |-> name, arguments |-> <<"{","}">>]]

M_system == [role |-> "system", content |-> Str(<<"s">>)]

M_userArray ==
  [role |-> "user",
   content |-> Arr(<<TextItem(<<"a">>), ImageItem(Url_png), ImageItem(Url_http),
                     [thinking |-> Null, type |-> "text", text |-> <<"b">>],
                     ImageItem(Url_split), ImageItem(Url_jpeg)>>)]

\* The object {}: the record without fields.
EmptyObject == [f \in {} |-> <<>>]

\* [null, {thinking:{}}, {type:'text', text:'a'}]: the first snapshot throws on the null item, the
\* second skips it and turns the empty thinking object into an empty text part.
M_userNullItem ==
  [role |-> "user", content |-> Arr(<<Null, [thinking |-> EmptyObject], TextItem(<<"a">>)>>)]

M_userThinking == [role |-> "user", content |-> Obj([thinking |-> [content |-> <<"x">>]])]

M_asstText == [role |-> "assistant", content |-> Str(<<"a", " ">>)]

M_asstTwoCalls ==
  [role |-> "assistant", content |-> Null,
   tool_calls |-> <<ToolCall("c1", <<"f">>), ToolCall("c2", <<"g">>)>>]

\* content "\f": white space only, so the message counts as having no text
M_asstOneCall ==
  [role |-> "assistant", content |-> Str(<<"\f">>), tool_calls |-> <<ToolCall("c2", <<"h">>)>>]

M_asstTextCall ==
  [role |-> "assistant", content |-> Str(<<"a">>),
   tool_calls |-> <<ToolCall("c1", <<>>), ToolCall("c2", <<"g">>)>>]

\* "\f\u00a0 ": white space only
M_asstBlank == [role |-> "assistant", content |-> Str(<<"\f", "U+00A0", " ">>)]

M_asstEmpty == [role |-> "assistant", content |-> Null]

M_asstArray ==
  [role |-> "assistant",
   content |-> Arr(<<[type |-> "thinking", content |-> <<"x">>], TextItem(<<"a">>)>>)]

M_tool1 == [role |-> "tool", tool_call_id |-> "c1", content |-> Str(<<"r">>)]

M_tool2 == [role |-> "tool", tool_call_id |-> "c2", content |-> Str(<<"r">>)]

M_function == [role |-> "function", content |-> Str(<<"r">>)]

Messages ==
  {M_system, M_userArray, M_userNullItem, M_userThinking, M_asstText, M_asstTwoCalls, M_asstOneCall,
   M_asstTextCall, M_asstBlank, M_asstEmpty, M_asstArray, M_tool1, M_tool2, M_function}

NoParameters == [f \in {} |-> "null"]

Parameters == {NoParameters, [top_p |-> "0"], [top_p |-> "null", top_k |-> "40"]}

NoMsg == [role |-> "none"]

NoRequest == [model |-> <<>>]

(***************************************************************************)
(* The state machine: generateRequestBody runs the loop of                 *)
(* openaiMessageToAntigravity over the caller's messages, one message per  *)
(* step, and then builds the request body.                                 *)
(***************************************************************************)
enableThinking == isEnableThinking(modelName)

Init ==
  /\ snapshot \in {1, 2}
  /\ modelName \in ModelNames
  /\ pc = "loop"
  /\ n = 0
  /\ msg = NoMsg
  /\ antigravityMessages = <<>>
  /\ parameters = NoParameters
  /\ request = NoRequest

\* sanitizeContent throws before the role is looked at (lines 194-197).
SanitizeContentThrows ==
  \E message \in Messages :
    /\ pc = "loop" /\ n < MaxMsgs
    /\ sanitized(message, snapshot, modelName, enableThinking).content = Throw
    /\ pc' = "error" /\ msg' = message
    /\ UNCHANGED <<snapshot, modelName, n, antigravityMessages, parameters, request>>

UserOrSystemMessage ==
  \E message \in Messages :
    /\ pc = "loop" /\ n < MaxMsgs
    /\ message.role \in {"user", "system"}
    /\ sanitized(message, snapshot, modelName, enableThinking).content # Throw
    /\ LET m == sanitized(message, snapshot, modelName, enableThinking)
       IN  antigravityMessages' = handleUserMessage(extractImagesFromContent(m.content), antigravityMessages)
    /\ msg' = message /\ n' = n + 1
    /\ UNCHANGED <<snapshot, modelName, pc, parameters, request>>

AssistantMessage ==
  \E message \in Messages :
    /\ pc = "loop" /\ n < MaxMsgs
    /\ message.role = "assistant"
    /\ sanitized(message, snapshot, modelName, enableThinking).content # Throw
    /\ LET m == sanitized(message, snapshot, modelName, enableThinking)
           r == assistantStep(m, antigravityMessages, snapshot, modelName, enableThinking)
       IN  /\ r.ok
           /\ antigravityMessages' = r.value
    /\ msg' = message /\ n' = n + 1
    /\ UNCHANGED <<snapshot, modelName, pc, parameters, request>>

AssistantMessageThrows ==
  \E message \in Messages :
    /\ pc = "loop" /\ n < MaxMsgs
    /\ message.role = "assistant"
    /\ sanitized(message, snapshot, modelName, enableThinking).content # Throw
    /\ LET m == sanitized(message, snapshot, modelName, enableThinking)
       IN  ~assistantStep(m, antigravityMessages, snapshot, modelName, enableThinking).ok
    /\ pc' = "error" /\ msg' = message
    /\ UNCHANGED <<snapshot, modelName, n, antigravityMessages, parameters, request>>

ToolMessage ==
  \E message \in Messages :
    /\ pc = "loop" /\ n < MaxMsgs
    /\ message.role = "tool"
    /\ sanitized(message, snapshot, modelName, enableThinking).content # Throw
    /\ LET m == sanitized(message, snapshot, modelName, enableThinking)
       IN  antigravityMessages' = handleToolCall(m, antigravityMessages)
    /\ msg' = message /\ n' = n + 1
    /\ UNCHANGED <<snapshot, modelName, pc, parameters, request>>

OtherRoleMessage ==
  \E message \in Messages :
    /\ pc = "loop" /\ n < MaxMsgs
    /\ message.role \notin {"user", "system", "assistant", "tool"}
    /\ sanitized(message, snapshot, modelName, enableThinking).content # Throw
    /\ msg' = message /\ n' = n + 1
    /\ UNCHANGED <<snapshot, modelName, pc, antigravityMessages, parameters, request>>

BuildRequestBody ==
  \E params \in Parameters :
    /\ pc = "loop"
    /\ parameters' = params
    /\ request' = generateRequestBody(antigravityMessages, snapshot, modelName, params)
    /\ pc' = "done"
    /\ UNCHANGED <<snapshot, modelName, n, msg, antigravityMessages>>

Next ==
  \/ SanitizeContentThrows
  \/ UserOrSystemMessage
  \/ AssistantMessage
  \/ AssistantMessageThrows
  \/ ToolMessage
  \/ OtherRoleMessage
  \/ BuildRequestBody

Spec == Init /\ [][Next]_vars

(***************************************************************************)
(* Vocabulary of the properties.                                           *)
(***************************************************************************)
IsFunctionCall(p) == "functionCall" \in DOMAIN p

IsFunctionResponse(p) == "functionResponse" \in DOMAIN p

IsPlainText(p) == DOMAIN p = {"text"}

IsThought(p) == (DOMAIN p = {"text", "thought"} /\ p.thought) \/ TypeIs(p, "thinking")

ThoughtText(p) == IF TypeIs(p, "thinking") THEN p.content ELSE p.text

\* A handler call that returned: the message counts as processed.
Processed(role) == n' = n + 1 /\ msg'.role = role

\* The list after the step keeps every earlier turn and only grows the last one.
AppendsOneTurn(old, new) == Len(new) = Len(old) + 1 /\ SubSeq(new, 1, Len(old)) = old

AppendsParts(old, new) ==
  /\ old # <<>> /\ Len(new) = Len(old)
  /\ SubSeq(new, 1, Len(old) - 1) = SubSeq(old, 1, Len(old) - 1)
  /\ Last(new).role = Last(old).role
  /\ Len(Last(new).parts) > Len(Last(old).parts)
  /\ SubSeq(Last(new).parts, 1, Len(Last(old).parts)) = Last(old).parts

AddedParts(old, new) == SubSeq(Last(new).parts, Len(Last(old).parts) + 1, Len(Last(new).parts))

HasToolCalls(m) == "tool_calls" \in DOMAIN m /\ m.tool_calls # <<>>

NonBlank(t) == \E i \in 1..Len(t) : t[i] \notin WhiteSpace

\* The text a message shows: its string, or the text and reasoning of its parts.
ShownText(c) ==
  IF c.k = "string" THEN c.s
  ELSE IF c.k = "array"
  THEN Concat([i \in 1..Len(c.items) |->
                 IF "text" \in DOMAIN c.items[i] THEN c.items[i].text
                 ELSE IF "content" \in DOMAIN c.items[i] THEN c.items[i].content
                 ELSE IF hasThinking(c.items[i]) THEN c.items[i].thinking.content
                 ELSE <<>>])
  ELSE IF c.k = "object" /\ hasThinking(c.o) THEN c.o.thinking.content
  ELSE <<>>

HasVisibleText(m) == NonBlank(ShownText(m.content))

(***************************************************************************)
(* C1.  A tool message's FunctionResponse is appended to the last turn     *)
(* exactly when that turn is a user turn already holding a                 *)
(* FunctionResponse; otherwise a new user turn holding only that           *)
(* FunctionResponse is appended.  Two consecutive tool messages therefore  *)
(* end up in one user turn, their FunctionResponses in source order.       *)
(***************************************************************************)
C1_LastIsResponseTurn(old) ==
  old # <<>> /\ Last(old).role = "user" /\ \E i \in 1..Len(Last(old).parts) : IsFunctionResponse(Last(old).parts[i])

C1_ToolStep(old, new, prev, cur) ==
  /\ IF C1_LastIsResponseTurn(old)
     THEN AppendsParts(old, new) /\ Len(AddedParts(old, new)) = 1
     ELSE AppendsOneTurn(old, new) /\ Last(new).role = "user" /\ Len(Last(new).parts) = 1
  /\ LET last == Last(new).parts[Len(Last(new).parts)]
     IN  IsFunctionResponse(last) /\ last.functionResponse.id = cur.tool_call_id
  /\ (prev.role = "tool" /\ prev.tool_call_id # cur.tool_call_id) =>
       LET ps == Last(new).parts
       IN  /\ Len(new) = Len(old) /\ Last(new).role = "user" /\ Len(ps) >= 2
           /\ IsFunctionResponse(ps[Len(ps) - 1]) /\ ps[Len(ps) - 1].functionResponse.id = prev.tool_call_id
           /\ ps[Len(ps)].functionResponse.id = cur.tool_call_id

C1_ToolResponseMerge ==
  [][Processed("tool") => C1_ToolStep(antigravityMessages, antigravityMessages', msg, msg')]_vars

\* Two tool messages answered the two calls of one assistant message: one user turn, c1 then c2.
C1_Witness ==
  /\ msg = M_tool2 /\ Len(antigravityMessages) = 2
  /\ antigravityMessages[1].role = "model"
  /\ LET ps == Last(antigravityMessages).parts
     IN  /\ Last(antigravityMessages).role = "user" /\ Len(ps) = 2
         /\ IsFunctionResponse(ps[1]) /\ ps[1].functionResponse.id = "c1" /\ ps[1].functionResponse.name = <<"f">>
         /\ IsFunctionResponse(ps[2]) /\ ps[2].functionResponse.id = "c2" /\ ps[2].functionResponse.name = <<"g">>

(***************************************************************************)
(* C2.  An assistant message is merged into the last turn (no new turn)    *)
(* exactly when the last turn is a model turn, the message has a tool      *)
(* call, and it has no visible text; otherwise exactly one new model turn  *)
(* is appended.  Stated of the handler calls that return.                  *)
(***************************************************************************)
C2_AssistantStep(old, new, cur) ==
  IF old # <<>> /\ Last(old).role = "model" /\ HasToolCalls(cur) /\ ~HasVisibleText(cur)
  THEN AppendsParts(old, new)
  ELSE AppendsOneTurn(old, new) /\ Last(new).role = "model"

C2_ModelTurnMerge ==
  [][Processed("assistant") => C2_AssistantStep(antigravityMessages, antigravityMessages', msg')]_vars

\* Two assistant messages, the second with tool calls only, made a single model turn.
C2_Witness ==
  /\ n = 2 /\ msg = M_asstTwoCalls /\ Len(antigravityMessages) = 1
  /\ Last(antigravityMessages).role = "model"
  /\ \E i \in 1..Len(Last(antigravityMessages).parts) :
       /\ IsFunctionCall(Last(antigravityMessages).parts[i])
       /\ Last(antigravityMessages).parts[i].functionCall.id = "c2"

(***************************************************************************)
(* C3.  As claimed: an assistant message with visible text followed by an  *)
(* assistant message with tool calls only and no text gives two distinct   *)
(* model turns, the first with the text, the second with the FunctionCall. *)
(***************************************************************************)
C3_Case(prev, cur) ==
  /\ prev.role = "assistant" /\ HasVisibleText(prev)
  /\ HasToolCalls(cur) /\ ~HasVisibleText(cur)

CallIds(parts) ==
  LET RECURSIVE ids(_)
      ids(ps) == IF ps = <<>> THEN <<>>
                 ELSE (IF IsFunctionCall(Head(ps)) THEN <<Head(ps).functionCall.id>> ELSE <<>>) \o ids(Tail(ps))
  IN  ids(parts)

C3_TwoDistinctTurns ==
  [][(Processed("assistant") /\ C3_Case(msg, msg')) =>
       /\ AppendsOneTurn(antigravityMessages, antigravityMessages')
       /\ CallIds(Last(antigravityMessages').parts) = [i \in 1..Len(msg'.tool_calls) |-> msg'.tool_calls[i].id]]_vars

(***************************************************************************)
(* C3 amended.  The two messages are merged: the tool-call message adds    *)
(* its parts (the placeholder thought, when one is injected, and then its  *)
(* FunctionCalls) to the model turn that holds the first message's text,   *)
(* and no new turn is created.                                             *)
(***************************************************************************)
C3_MergedStep(old, new, prev, cur) ==
  /\ AppendsParts(old, new)
  /\ Last(new).role = "model"
  /\ \E i \in 1..Len(Last(old).parts) :
       Last(new).parts[i] = [text |-> trimEnd(ShownText(prev.content))]
  /\ LET added == AddedParts(old, new)
     IN  /\ CallIds(added) = [i \in 1..Len(cur.tool_calls) |-> cur.tool_calls[i].id]
         /\ \A i \in 1..Len(added) :
              IsFunctionCall(added[i]) \/ (IsThought(added[i]) /\ ThoughtText(added[i]) = defaultThoughtText)
         /\ IsFunctionCall(added[Len(added)])

C3_TextThenToolCallMerged ==
  [][(Processed("assistant") /\ C3_Case(msg, msg')) =>
       C3_MergedStep(antigravityMessages, antigravityMessages', msg, msg')]_vars

\* The text message and the tool-call message ended up in one model turn.
C3_Witness ==
  /\ n = 2 /\ msg = M_asstOneCall /\ Len(antigravityMessages) = 1
  /\ LET ps == Last(antigravityMessages).parts
     IN  /\ ps[1] = [text |-> <<"a">>]
         /\ IsFunctionCall(ps[Len(ps)]) /\ ps[Len(ps)].functionCall.name = <<"h">>
         /\ CallIds(ps) = <<"c2">>

(***************************************************************************)
(* C4.  As claimed: the FunctionResponse of a tool message carries         *)
(* id = tool_call_id and the name of the FunctionCall with that id in the  *)
(* most recent model turn that contains one; the empty string when no      *)
(* model turn contains one.  The step never fails.                         *)
(***************************************************************************)
FirstCall(parts, id) ==
  LET hits == {i \in 1..Len(parts) : IsFunctionCall(parts[i]) /\ parts[i].functionCall.id = id}
  IN  parts[CHOOSE i \in hits : \A j \in hits : i <= j].functionCall

ContainsCall(turn, id) ==
  turn.role = "model" /\ \E i \in 1..Len(turn.parts) :
                            IsFunctionCall(turn.parts[i]) /\ turn.parts[i].functionCall.id = id

NameFrom(old, id, Candidate(_)) ==
  LET turns == {i \in 1..Len(old) : Candidate(old[i])}
  IN  IF turns = {} THEN <<>>
      ELSE FirstCall(old[CHOOSE i \in turns : \A j \in turns : j <= i].parts, id).name

C4_ResponseIs(name, id, new) ==
  LET last == Last(new).parts[Len(Last(new).parts)]
  IN  /\ IsFunctionResponse(last)
      /\ last.functionResponse.id = id
      /\ last.functionResponse.name = name
      /\ pc' = "loop"

C4_NameOfMostRecentCall ==
  [][Processed("tool") =>
       LET id == msg'.tool_call_id
           Candidate(turn) == ContainsCall(turn, id)
       IN  C4_ResponseIs(NameFrom(antigravityMessages, id, Candidate), id, antigravityMessages')]_vars

(***************************************************************************)
(* C4 amended.  The name is that of the first FunctionCall with that id in *)
(* the most recent model turn whose first such FunctionCall has a          *)
(* non-empty name; the empty string when there is no such turn.            *)
(***************************************************************************)
C4_NameOfMostRecentNamedCall ==
  [][Processed("tool") =>
       LET id == msg'.tool_call_id
           Candidate(turn) == ContainsCall(turn, id) /\ FirstCall(turn.parts, id).name # <<>>
       IN  C4_ResponseIs(NameFrom(antigravityMessages, id, Candidate), id, antigravityMessages')]_vars

\* The most recent call c1 has no name; the response takes the name of the earlier call c1.
C4_Witness ==
  /\ msg = M_tool1 /\ Len(antigravityMessages) = 3
  /\ ContainsCall(antigravityMessages[1], "c1") /\ FirstCall(antigravityMessages[1].parts, "c1").name = <<"f">>
  /\ ContainsCall(antigravityMessages[2], "c1") /\ FirstCall(antigravityMessages[2].parts, "c1").name = <<>>
  /\ Last(antigravityMessages).parts[1].functionResponse.name = <<"f">>

(***************************************************************************)
(* C5.  An assistant message with exactly one tool call and empty text,    *)
(* processed with thinking enabled for a model that does not need the      *)
(* thought marker, starts a model turn whose only parts are the            *)
(* placeholder reasoning sentence and then the FunctionCall with the       *)
(* call's id, name and args = {query: arguments}.                          *)
(***************************************************************************)
C5_Case(old, cur) ==
  /\ HasToolCalls(cur) /\ Len(cur.tool_calls) = 1
  /\ cur.content.k \in {"null", "string"} /\ ~HasVisibleText(cur)
  /\ isEnableThinking(modelName) /\ ~needsThoughtFlag(modelName)
  /\ (old = <<>> \/ Last(old).role # "model")

CarriesPlaceholder(p) ==
  \/ ("text" \in DOMAIN p /\ p.text = defaultThoughtText)
  \/ ("content" \in DOMAIN p /\ p.content = defaultThoughtText)

C5_Turn(new, cur) ==
  LET ps == Last(new).parts
      call == cur.tool_calls[1]
  IN  /\ Last(new).role = "model" /\ Len(ps) = 2
      /\ ~IsFunctionCall(ps[1]) /\ CarriesPlaceholder(ps[1])
      /\ IsFunctionCall(ps[2])
      /\ ps[2].functionCall = [id |-> call.id, name |-> call.function.name,
                               args |-> [query |-> call.function.arguments]]

C5_PlaceholderThenCall ==
  [][(Processed("assistant") /\ C5_Case(antigravityMessages, msg')) =>
       (AppendsOneTurn(antigravityMessages, antigravityMessages') /\ C5_Turn(antigravityMessages', msg'))]_vars

(***************************************************************************)
(* C6.  Reasoning content is never dropped: when a system, user or         *)
(* assistant message carries a reasoning payload with text X, the request  *)
(* is built without error and its final contents hold a part carrying X,   *)
(* a thought part when thinking is enabled and a plain text part when it   *)
(* is not.                                                                 *)
(***************************************************************************)
ReasoningTexts(m) ==
  LET c == m.content
      OfItem(item) == IF hasThinking(item)
                      THEN {OrElse(Prop(item.thinking, "content"), OrElse(Prop(item.thinking, "text"), <<>>))}
                      ELSE IF TypeIs(item, "thinking")
                      THEN {OrElse(Field(item, "content"), OrElse(Field(item, "text"), <<>>))}
                      ELSE {}
      all == IF c.k = "object" THEN OfItem(c.o)
             ELSE IF c.k = "array" THEN UNION {OfItem(c.items[i]) : i \in 1..Len(c.items)}
             ELSE {}
  IN  {X \in all : X # <<>>}

PartCarries(p, X, thinking) ==
  IF thinking THEN IsThought(p) /\ includes(ThoughtText(p), X)
  ELSE IsPlainText(p) /\ includes(p.text, X)

C6_ReasoningNeverDropped ==
  (msg.role \in {"system", "user", "assistant"} /\ ReasoningTexts(msg) # {}) =>
    /\ pc # "error"
    /\ pc = "done" =>
         \A X \in ReasoningTexts(msg) :
           \E i \in 1..Len(request.contents) : \E j \in 1..Len(request.contents[i].parts) :
             PartCarries(request.contents[i].parts[j], X, isEnableThinking(modelName))

(***************************************************************************)
(* C7.  A system or user message whose content is a string or an array of  *)
(* text and image parts appends exactly one new user turn: a Text part     *)
(* with the string, or with the concatenation of the text parts, and then  *)
(* one Image part for each image part whose URL has the form               *)
(* data:image/<format>;base64,<data>, in source order.                     *)
(***************************************************************************)
IsDataUri(url, format, data) ==
  /\ url = S_data_image_ \o format \o S_base64_ \o data
  /\ format # <<>> /\ \A i \in 1..Len(format) : format[i] \in WordChars
  /\ data # <<>> /\ \A i \in 1..Len(data) : data[i] \notin LineTerminators

ExpectedImage(url) ==
  LET cuts == {c \in (1..Len(url)) \X (1..Len(url)) :
                 c[1] <= c[2] /\ IsDataUri(url, SubSeq(url, Len(S_data_image_) + 1, c[1]),
                                           SubSeq(url, c[2], Len(url)))}
  IN  IF cuts = {} THEN <<>>
      ELSE LET c == CHOOSE c \in cuts : TRUE
           IN  <<[inlineData |-> [mimeType |-> S_image_ \o SubSeq(url, Len(S_data_image_) + 1, c[1]),
                                  data |-> SubSeq(url, c[2], Len(url))]]>>

TextAndImagesOnly(c) ==
  \/ c.k = "string"
  \/ c.k = "array" /\ \A i \in 1..Len(c.items) : TypeIs(c.items[i], "text") \/ TypeIs(c.items[i], "image_url")

ExpectedUserTurn(c) ==
  IF c.k = "string" THEN [role |-> "user", parts |-> <<[text |-> c.s]>>]
  ELSE [role |-> "user",
        parts |-> <<[text |-> Concat([i \in 1..Len(c.items) |->
                                        IF TypeIs(c.items[i], "text") THEN c.items[i].text ELSE <<>>])]>>
                  \o Concat([i \in 1..Len(c.items) |->
                               IF TypeIs(c.items[i], "image_url")
                               THEN ExpectedImage(c.items[i].image_url.url) ELSE <<>>])]

C7_UserTurnTextThenImages ==
  [][((Processed("user") \/ Processed("system")) /\ TextAndImagesOnly(msg'.content)) =>
       /\ AppendsOneTurn(antigravityMessages, antigravityMessages')
       /\ Last(antigravityMessages') = ExpectedUserTurn(msg'.content)
       /\ pc' = "loop"]_vars

(***************************************************************************)
(* C8.  A turn has an empty parts list only when it comes from an          *)
(* assistant message with no tool calls and no content; every assistant    *)
(* message with a tool call or with content adds at least one part; and an *)
(* assistant message with neither appends a model turn with empty parts,   *)
(* without being dropped and without an error.  "Content" is read here as  *)
(* visible (non-blank) text, the reading most favourable to the code.      *)
(***************************************************************************)
RECURSIVE PartCount(_)
PartCount(turns) == IF turns = <<>> THEN 0 ELSE Len(Head(turns).parts) + PartCount(Tail(turns))

NoContentAtAll(m) == m.content.k = "null" \/ (m.content.k = "string" /\ m.content.s = <<>>)

AssistantHandled == pc = "loop" /\ msg'.role = "assistant" /\ (n' = n + 1 \/ pc' = "error")

C8_AssistantStep(old, new, cur) ==
  /\ (HasToolCalls(cur) \/ HasVisibleText(cur)) =>
       (pc' # "error" /\ PartCount(new) > PartCount(old))
  /\ (~HasToolCalls(cur) /\ NoContentAtAll(cur)) =>
       (pc' # "error" /\ new = Append(old, [role |-> "model", parts |-> <<>>]))

C8_EmptyPartsOnlyFromEmptyMessage ==
  [][/\ AssistantHandled => C8_AssistantStep(antigravityMessages, antigravityMessages', msg')
     /\ (Len(antigravityMessages') > Len(antigravityMessages) /\ Last(antigravityMessages').parts = <<>>) =>
          (msg'.role = "assistant" /\ ~HasToolCalls(msg') /\ ~HasVisibleText(msg'))
     /\ \A i \in 1..Len(antigravityMessages) :
          antigravityMessages[i].parts # <<>> => antigravityMessages'[i].parts # <<>>]_vars

(***************************************************************************)
(* C9.  The generation config has no topP exactly when thinking is enabled *)
(* for the requested model and the mapped model name contains "claude";    *)
(* otherwise topP is the supplied top_p, or the configured default when    *)
(* none is supplied.  includeThoughts is the thinking flag and             *)
(* thinkingBudget is 1024 when it is set, 0 otherwise.                     *)
(***************************************************************************)
C9_Thinking == isEnableThinking(modelName)

C9_GenerationConfig ==
  pc = "done" =>
    LET gc == request.generationConfig
        supplied == "top_p" \in DOMAIN parameters /\ parameters.top_p # "null"
    IN  /\ ("topP" \notin DOMAIN gc) <=> (C9_Thinking /\ includes(modelMapping(modelName), S_claude))
        /\ "topP" \in DOMAIN gc =>
             gc.topP = IF supplied THEN parameters.top_p ELSE configDefaults.top_p
        /\ gc.thinkingConfig.includeThoughts = C9_Thinking
        /\ gc.thinkingConfig.thinkingBudget = IF C9_Thinking THEN 1024 ELSE 0

\* A request for claude-opus-4-5: thinking is off, the name is mapped, topP is the caller's 0.
C9_Witness ==
  /\ pc = "done" /\ modelName = S_claude_opus_4_5
  /\ request.model = S_claude_opus_4_5_thinking
  /\ parameters = [top_p |-> "0"]
  /\ request.generationConfig.topP = "0"
  /\ request.generationConfig.thinkingConfig.thinkingBudget = 0

(***************************************************************************)
(* C10.  The turn list is append-only: a processed system, user,           *)
(* assistant or tool message appends one turn at the end or appends parts  *)
(* to the last turn; a message of any other role leaves the list as it     *)
(* is; no step removes, reorders or rewrites a turn or a part.  The list   *)
(* never has more turns than messages were processed.                      *)
(***************************************************************************)
C10_Step(old, new) ==
  /\ (n' = n + 1 /\ msg'.role \in {"system", "user", "assistant", "tool"}) =>
       (AppendsOneTurn(old, new) \/ AppendsParts(old, new))
  /\ (n' = n + 1 /\ msg'.role \notin {"system", "user", "assistant", "tool"}) => new = old
  /\ n' = n => new = old
  /\ Len(new) <= n'

C10_AppendOnly == [][C10_Step(antigravityMessages, antigravityMessages')]_vars

\* A message of role "function" was processed after two others and left the two turns alone.
C10_Witness ==
  /\ n = 3 /\ msg = M_function /\ Len(antigravityMessages) = 2 /\ pc = "loop"

(***************************************************************************)
(* C11.  After any sequence of messages every target turn has role user    *)
(* or model; a user turn that holds a FunctionResponse part holds only     *)
(* FunctionResponse parts (no text, image or FunctionCall part shares a    *)
(* turn with a FunctionResponse); and no two adjacent turns are both user  *)
(* turns holding FunctionResponse parts.  The same holds of the contents   *)
(* of the request body once it is built.                                   *)
(***************************************************************************)
IsResponseTurn(turn) == turn.role = "user" /\ hasFunctionResponse(turn)

C11_WellFormed(turns) ==
  /\ \A i \in 1..Len(turns) : turns[i].role \in {"user", "model"}
  /\ \A i \in 1..Len(turns) :
       hasFunctionResponse(turns[i]) =>
         /\ turns[i].role = "user"
         /\ \A j \in 1..Len(turns[i].parts) : DOMAIN turns[i].parts[j] = {"functionResponse"}
  /\ \A i \in 1..(Len(turns) - 1) : ~(IsResponseTurn(turns[i]) /\ IsResponseTurn(turns[i + 1]))

C11_TurnInvariants ==
  /\ C11_WellFormed(antigravityMessages)
  /\ pc = "done" => C11_WellFormed(request.contents)

\* A tool response arrived between two user messages: its turn stands alone between two text turns,
\* and the request body built from the three turns keeps them apart.
C11_Witness ==
  /\ pc = "done" /\ n = 3 /\ msg = M_userArray
  /\ Len(request.contents) = 3
  /\ ~hasFunctionResponse(request.contents[1]) /\ request.contents[1].role = "user"
  /\ IsResponseTurn(request.contents[2]) /\ Len(request.contents[2].parts) = 1
  /\ ~hasFunctionResponse(request.contents[3]) /\ request.contents[3].role = "user"
  /\ Len(request.contents[3].parts) = 3

====
